---- MODULE Spec2Model ----
(***************************************************************************)
(* Model of the policy tracker: the Streamlit dashboard (src/app.py) and   *)
(* the command-line tracker (src/scraper.py).                              *)
(*                                                                         *)
(* Three specifications share the module:                                  *)
(*   Spec         one browser session re-running the script of app.py,     *)
(*                panel by panel, once per user interaction;               *)
(*   SpecAnalyze  threads (sessions) calling ai_analyze_policy, the LLM    *)
(*                request being a step of its own so that two calls can    *)
(*                overlap;                                                 *)
(*   SpecCLI      the loop of scraper.main_interface.                      *)
(***************************************************************************)
EXTENDS Integers, Sequences, FiniteSets, TLC

VARIABLES
    \* ---- app.py, one session (Spec) ----
    pc,          \* panel the script run is at, "idle" between runs
    exc,         \* uncaught exception that ended the last run, "none" otherwise
    cache,       \* st.cache_data memo of the four fetch wrappers
    query,       \* text_input "search_bar"
    main_table,  \* frontend state of the dataframe widget "main_table"
    bills_df,    \* st.session_state.bills_df
    selection,   \* script global `selection` of the current run
    doc_no,      \* script global `doc_no` of the current run
    clicked,     \* button whose click triggered the current run
    rendered,    \* widgets the latest run has put on the page
    detail,      \* what the bill detail panel rendered in the current run
    log,         \* analysis requests served in the current run
    prev,        \* analysis requests served in the run before
    cycles,      \* script runs started
    \* ---- ai_analyze_policy, concurrent callers (SpecAnalyze) ----
    tpc,         \* per thread: "idle", "generate" (LLM request outstanding), "returned", "raised"
    targs,       \* per thread: arguments of its current call
    tprompt,     \* per thread: prompt handed to the backend
    tback,       \* per thread: the backend's answer
    tres,        \* per thread: value the call returned
    failedKeys,  \* keys for which some backend invocation raised
    ncalls,      \* calls started
    \* ---- the fetch wrappers called one by one (SpecFetch) ----
    memo,        \* st.cache_data memo of the four wrappers
    fetched,     \* per wrapper: the server's answer at its latest execution, the outcome
    nfetch,      \* wrapper calls made
    \* ---- scraper.py (SpecCLI) ----
    cli_pc,      \* "start", "menu", "pause", "quit", "nobills", "raised"
    bills,       \* local `bills` of main_interface
    fetched0,    \* the list get_recent_bills returned
    choice,      \* last line read at the menu
    printed,     \* what the last menu iteration printed
    details,     \* arguments of the last get_bill_details call
    cli_exc,     \* exception that left main_interface, "none" otherwise
    turns        \* menu lines read

uiVars == <<pc, exc, cache, query, main_table, bills_df, selection,
            doc_no, clicked, rendered, detail, log, prev, cycles>>
anVars == <<tpc, targs, tprompt, tback, tres, failedKeys, ncalls>>
cliVars == <<cli_pc, bills, fetched0, choice, printed, details, cli_exc, turns>>
feVars == <<memo, fetched, nfetch>>
vars == <<uiVars, anVars, feVars, cliVars>>

----------------------------------------------------------------------------
(* Bounds of the model.                                                    *)
MaxCycles == 3
MaxCalls == 3
MaxFetches == 4
MaxTurns == 3
MaxChoiceLen == 2

----------------------------------------------------------------------------
(* Python values.  A string is a sequence of words; None and a missing     *)
(* dictionary key are values of their own.                                 *)
Str(w) == [t |-> "str", w |-> w]
None == [t |-> "None", w |-> <<>>]
Missing == [t |-> "missing", w |-> <<>>]

\* dict.get(key, default): the default only when the key is absent.
DictGet(field, default) == IF field = Missing THEN default ELSE field

\* Truth value of a str-or-None: None and "" are false.
Truthy(v) == v.t = "str" /\ v.w # <<>>

\* `needle in text` for strings: needle occurs as a contiguous run.
Contains(w, needle) ==
    \E i \in 0..(Len(w) - Len(needle)) :
        \A j \in 1..Len(needle) : w[i + j] = needle[j]

NotYetAvailable == <<"not", "yet", "available">>
PendingMessage == <<"Deep analysis pending official text release.">>

----------------------------------------------------------------------------
(* The LLM backend: model.generate_content(prompt).text either yields a    *)
(* text or raises.                                                         *)
RawTexts == {<<"anything">>, <<"Risk Score:", "7.", "Explanation">>}
BackendErrors == {"quota exceeded"}
Answer(r) == [ok |-> TRUE, text |-> r, err |-> "none"]
Failure(e) == [ok |-> FALSE, text |-> <<>>, err |-> e]
Backend == {Answer(r) : r \in RawTexts} \cup {Failure(e) : e \in BackendErrors}
NoAnswer == [ok |-> FALSE, text |-> <<>>, err |-> "not invoked"]
NoPrompt == <<>>

----------------------------------------------------------------------------
(* ai_analyze_policy(text, title, analysis_type)                           *)

\* The dictionary of templates, built from the call's title and text.
prompts(title, text) ==
    [m \in {"impact", "sentiment", "semantic"} |->
        CASE m = "impact" ->
               <<"Analyze the economic impact of", title,
                 "Who are the winners and losers? (3 bullets each). Text:", text>>
          [] m = "sentiment" ->
               <<"Analyze the partisan lean of", title,
                 "Is it broadly bipartisan or sharply partisan? Explain why. Text:", text>>
          [] m = "semantic" ->
               <<"Identify the top 3 industries affected by this policy:", title>>]

\* if not text or "not yet available" in text
ShortCircuit(text) == ~Truthy(text) \/ Contains(text.w, NotYetAvailable)

\* prompts.get(analysis_type, prompts["impact"])
\* Variant: the fallback names another template.
SelectPrompt_keyed(analysis_type, title, text) ==
    LET d == prompts(title, text)
    IN  IF analysis_type \in DOMAIN d THEN d[analysis_type] ELSE d["sentiment"]
SelectPrompt(analysis_type, title, text) ==
    LET d == prompts(title, text)
    IN  IF analysis_type \in DOMAIN d THEN d[analysis_type] ELSE d["impact"]

ErrorString(e) == <<"Analysis Error:", e>>

\* try: return response.text / except Exception as e: return f"Analysis Error: {e}"
\* Variant: the except clause lets the exception through.
Complete_propagating(back) ==
    IF back.ok THEN [pc |-> "returned", ret |-> back.text]
               ELSE [pc |-> "raised", ret |-> <<>>]
Complete(back) ==
    IF back.ok THEN [pc |-> "returned", ret |-> back.text]
               ELSE [pc |-> "returned", ret |-> ErrorString(back.err)]

\* What a caller renders: the returned string itself, st.markdown(...) or
\* st.success(...); the value has a body and nothing else.
AnalysisResult(ret) == [body |-> ret]

----------------------------------------------------------------------------
(* SpecAnalyze: threads calling ai_analyze_policy.  Streamlit runs every   *)
(* session's script in a thread of its own, and the function takes no lock *)
(* and keeps no table of calls under way.                                  *)
Threads == {"s1", "s2"}
ItemIds == {"HR1", "HR2"}
TitleOf(id) == IF id = "HR1" THEN Str(<<"energy", "act">>) ELSE Str(<<"crypto", "act">>)
Modes == {"impact", "sentiment", "semantic", "summary", "constitution"}
Texts == {Str(<<>>), Str(<<"Facts", "not", "yet", "available", ".">>), Str(<<"body">>)}
NoArgs == [id |-> "none", mode |-> "none", title |-> None, text |-> None,
           afterFail |-> FALSE]

AnInit ==
    /\ tpc = [t \in Threads |-> "idle"]
    /\ targs = [t \in Threads |-> NoArgs]
    /\ tprompt = [t \in Threads |-> NoPrompt]
    /\ tback = [t \in Threads |-> NoAnswer]
    /\ tres = [t \in Threads |-> <<>>]
    /\ failedKeys = {}
    /\ ncalls = 0

\* Entry of ai_analyze_policy up to the backend request: the pending
\* short-circuit returns at once, otherwise the prompt goes out.
Call(t, id, text, mode) ==
    /\ tpc[t] \in {"idle", "returned", "raised"}
    /\ ncalls < MaxCalls
    /\ ncalls' = ncalls + 1
    /\ targs' = [targs EXCEPT ![t] =
                    [id |-> id, mode |-> mode, title |-> TitleOf(id), text |-> text,
                     afterFail |-> <<id, mode>> \in failedKeys]]
    /\ tback' = [tback EXCEPT ![t] = NoAnswer]
    /\ IF ShortCircuit(text)
         THEN /\ tpc' = [tpc EXCEPT ![t] = "returned"]
              /\ tprompt' = [tprompt EXCEPT ![t] = NoPrompt]
              /\ tres' = [tres EXCEPT ![t] = PendingMessage]
         ELSE /\ tpc' = [tpc EXCEPT ![t] = "generate"]
              /\ tprompt' = [tprompt EXCEPT ![t] = SelectPrompt(mode, TitleOf(id), text)]
              /\ tres' = [tres EXCEPT ![t] = <<>>]
    /\ UNCHANGED <<failedKeys, uiVars, feVars, cliVars>>

\* The backend answers thread t's outstanding request and the call ends.
Respond(t, back) ==
    /\ tpc[t] = "generate"
    /\ tback' = [tback EXCEPT ![t] = back]
    /\ tpc' = [tpc EXCEPT ![t] = Complete(back).pc]
    /\ tres' = [tres EXCEPT ![t] = Complete(back).ret]
    /\ failedKeys' = IF back.ok THEN failedKeys
                     ELSE failedKeys \cup {<<targs[t].id, targs[t].mode>>}
    /\ UNCHANGED <<targs, tprompt, ncalls, uiVars, feVars, cliVars>>

AnNext ==
    \/ \E t \in Threads, id \in ItemIds, text \in Texts, mode \in Modes :
          Call(t, id, text, mode)
    \/ \E t \in Threads, back \in Backend : Respond(t, back)

----------------------------------------------------------------------------
(* Spec: the script of app.py, run top to bottom once per interaction.     *)

\* Records the three sources can return.
Bill(n, words, action) == [number |-> n, title |-> Str(words), latestAction |-> action]
B1 == Bill("1", <<"Energy", "Act">>, Str(<<"Introduced">>))
B2 == Bill("2", <<"Crypto", "Act">>, Missing)
B3 == Bill("3", <<>>, Str(<<"Passed", "House">>))
BillLists == {<<>>, <<B1, B2, B3>>, <<B2, B1>>}

Order(doc, words, abstract) ==
    [document_number |-> doc, title |-> Str(words), abstract |-> abstract]
E1 == Order("2026-01", <<"Energy", "Order">>, Str(<<"body">>))
E2 == Order("2026-02", <<"Crypto", "Order">>, None)
E3 == Order("2026-03", <<"Trade", "Order">>, Missing)
OrderLists == {<<E1, E2, E3>>}

Case(name, docket, description) ==
    [name |-> name, docket_number |-> docket, description |-> description]
S1 == Case("A v. B", "24-1", Str(<<"body">>))
S2 == Case("C v. D", "24-2", Missing)
CaseLists == {<<S1, S2>>}

\* What requests.get does: raise a transport error, or answer with a status
\* and a JSON body.
Raise == [kind |-> "raise", status |-> 0, body |-> <<>>]
Http(status, body) == [kind |-> "http", status |-> status, body |-> body]
NoRequest == [kind |-> "none", status |-> 0, body |-> <<>>]
BillAnswers == {Raise, Http(500, <<>>)} \cup {Http(200, l) : l \in BillLists}
OrderAnswers == {Raise, Http(500, <<>>)} \cup {Http(200, l) : l \in OrderLists}
CaseAnswers == {Raise, Http(500, <<>>)} \cup {Http(200, l) : l \in CaseLists}

\* What a wrapper's body does with the answer: the value it returns (None,
\* a list, or the JSON dict, whose 'bills' list is val) or the exception
\* that leaves it.
Returns(kind, val) == [raised |-> FALSE, kind |-> kind, val |-> val]
Raises == [raised |-> TRUE, kind |-> "exception", val |-> <<>>]
NotRun == [raised |-> FALSE, kind |-> "not run", val |-> <<>>]

fetch_data(ans) ==
    IF ans.kind = "raise" THEN Returns("None", <<>>)
    ELSE IF ans.status = 200 THEN Returns("dict", ans.body)
    ELSE Returns("None", <<>>)

fetch_eo_news(ans) ==
    IF ans.kind = "raise" THEN Raises
    ELSE IF ans.status = 200 THEN Returns("list", ans.body)
    ELSE Returns("list", <<>>)

fetch_executive_orders(ans) ==
    IF ans.kind = "raise" THEN Returns("list", <<>>)
    ELSE IF ans.status = 200 THEN Returns("list", ans.body)
    ELSE Returns("list", <<>>)

fetch_scotus_cases(ans) ==
    IF ans.kind = "raise" THEN Returns("list", <<>>)
    ELSE IF ans.status = 200 THEN Returns("list", ans.body)
    ELSE Returns("list", <<>>)

Wrappers == {"fetch_data", "fetch_eo_news", "fetch_executive_orders", "fetch_scotus_cases"}
Body(w, ans) ==
    CASE w = "fetch_data" -> fetch_data(ans)
      [] w = "fetch_eo_news" -> fetch_eo_news(ans)
      [] w = "fetch_executive_orders" -> fetch_executive_orders(ans)
      [] w = "fetch_scotus_cases" -> fetch_scotus_cases(ans)

\* @st.cache_data(ttl=...): a stored value whose ttl has not run out is
\* returned without running the body; a value the body returns is stored, an
\* exception is not.  m is the memo, expired tells that the ttl has run out.
Stored(m, w, expired) == m[w].hit /\ ~expired
CachedCall(m, w, ans, expired) ==
    IF Stored(m, w, expired) THEN m[w].out ELSE Body(w, ans)
CacheAfter(m, w, ans, expired) ==
    IF Stored(m, w, expired) THEN m
    ELSE IF Body(w, ans).raised THEN [m EXCEPT ![w] = [hit |-> FALSE, out |-> NotRun]]
    ELSE [m EXCEPT ![w] = [hit |-> TRUE, out |-> Body(w, ans)]]
EmptyMemo == [w \in Wrappers |-> [hit |-> FALSE, out |-> NotRun]]

Answers(w) == CASE w = "fetch_data" -> BillAnswers
                [] w = "fetch_scotus_cases" -> CaseAnswers
                [] OTHER -> OrderAnswers

FeInit ==
    /\ memo = EmptyMemo
    /\ fetched = [w \in Wrappers |-> [ran |-> FALSE, ans |-> NoRequest, out |-> NotRun]]
    /\ nfetch = 0

\* SpecFetch: one call of a wrapper, as any panel makes it.
Fetch(w, ans, expired) ==
    /\ nfetch < MaxFetches
    /\ nfetch' = nfetch + 1
    /\ memo' = CacheAfter(memo, w, ans, expired)
    /\ fetched' = IF Stored(memo, w, expired) THEN fetched
                  ELSE [fetched EXCEPT ![w] = [ran |-> TRUE, ans |-> ans, out |-> Body(w, ans)]]
    /\ UNCHANGED <<uiVars, anVars, cliVars>>

FeNext == \E w \in Wrappers : \E ans \in Answers(w), expired \in BOOLEAN : Fetch(w, ans, expired)

\* Truth value of a wrapper's result: None and the empty list are false, a
\* JSON dict with keys is true.
TruthyOut(out) == out.kind = "dict" \/ (out.kind = "list" /\ out.val # <<>>)

\* str.lower() on the words of the model's vocabulary.
Lower(word) ==
    CASE word = "Energy" -> "energy"
      [] word = "Crypto" -> "crypto"
      [] word = "Act" -> "act"
      [] OTHER -> word
LowerAll(w) == [i \in 1..Len(w) |-> Lower(w[i])]

\* pd.DataFrame(raw_bills.get('bills', [])) with the 'status' column added:
\* latestAction holds the 'text' entry of the record's latestAction dict.
Row(b) == [number |-> b.number, title |-> b.title,
           status |-> DictGet(b.latestAction, Str(<<"N/A">>))]
DataFrame(l) == [i \in 1..Len(l) |-> Row(l[i])]

\* df[df['title'].str.contains(query, case=False)] when query is not empty
MatchesQuery(r, q) == Contains(LowerAll(r.title.w), LowerAll(q.w))
Filtered(df, q) == IF Truthy(q) THEN SelectSeq(df, LAMBDA r : MatchesQuery(r, q)) ELSE df

Queries == {Str(<<>>), Str(<<"crypto">>)}

\* st.dataframe(df, on_select="rerun", selection_mode="single-row", key="main_table"):
\* the element is identified by its key and its data, so the rows the user
\* picked come back only while the same data is shown; a table with other
\* data is a new element with nothing selected.
Dataframe(df, state) == IF state.data = df THEN state.rows ELSE <<>>

\* st.session_state.bills_df = df
\* Variant: the frame of an earlier run is left in the session state.
WriteBillsDf_skipped(df) == bills_df
WriteBillsDf(df) == df

Unassigned == [assigned |-> FALSE, rows |-> <<>>]
NoDoc == [assigned |-> FALSE, v |-> ""]
NoDetail == [kind |-> "none", idx |-> -1, bill |-> Row(B1)]

\* One analysis request as a panel makes it: the whole of ai_analyze_policy.
ai_analyze_policy(text, title, analysis_type, back) ==
    IF ShortCircuit(text)
      THEN [invoked |-> FALSE, prompt |-> NoPrompt, back |-> NoAnswer,
            pc |-> "returned", ret |-> PendingMessage]
      ELSE [invoked |-> TRUE, prompt |-> SelectPrompt(analysis_type, title, text),
            back |-> back, pc |-> Complete(back).pc, ret |-> Complete(back).ret]

Request(panel, id, mode, body, text, title, back) ==
    [panel |-> panel, id |-> id, mode |-> mode, body |-> body, text |-> text,
     call |-> ai_analyze_policy(text, title, mode, back)]

UIInit ==
    /\ pc = "idle"
    /\ exc = "none"
    /\ cache = EmptyMemo
    /\ query = Str(<<>>)
    /\ main_table = [data |-> <<>>, rows |-> <<>>]
    /\ bills_df = <<>>
    /\ selection = Unassigned
    /\ doc_no = NoDoc
    /\ clicked = "none"
    /\ rendered = {}
    /\ detail = NoDetail
    /\ log = <<>>
    /\ prev = <<>>
    /\ cycles = 0

\* A user interaction (or the first page load) starts a run of the script
\* with fresh globals; widgets are put on the page again as the run reaches
\* them.
StartRun ==
    /\ pc = "idle"
    /\ cycles < MaxCycles
    /\ cycles' = cycles + 1
    /\ pc' = "alerts"
    /\ exc' = "none"
    /\ selection' = Unassigned
    /\ doc_no' = NoDoc
    /\ detail' = NoDetail
    /\ log' = <<>>
    /\ prev' = log
    /\ rendered' = {}
    /\ UNCHANGED <<cache, bills_df, anVars, feVars, cliVars>>

Rerun ==
    /\ StartRun
    /\ clicked' = "none"
    /\ UNCHANGED <<query, main_table>>

TypeQuery(q) ==
    /\ "search_bar" \in rendered
    /\ q # query
    /\ StartRun
    /\ query' = q
    /\ clicked' = "none"
    /\ UNCHANGED main_table

\* The user picks a row of the table on the page, or clears the pick.
SelectRow(rows) ==
    /\ "main_table" \in rendered
    /\ rows # main_table.rows
    /\ StartRun
    /\ main_table' = [main_table EXCEPT !.rows = rows]
    /\ clicked' = "none"
    /\ UNCHANGED query

ClickButton(b) ==
    /\ b \in rendered \ {"search_bar", "main_table"}
    /\ StartRun
    /\ clicked' = b
    /\ UNCHANGED <<query, main_table>>

\* An uncaught exception ends the run; Streamlit shows it in place of the
\* rest of the page.
Crash(e) == pc' = "idle" /\ exc' = e

\* The requests a panel served go to the run's log.
Serve(reqs) == log' = log \o reqs

\* Lines 106-114: the alerts row.
StepAlerts(ans, expired) ==
    /\ pc = "alerts"
    /\ LET orders == CachedCall(cache, "fetch_eo_news", ans, expired)
       IN  IF orders.raised THEN Crash("ConnectionError") ELSE pc' = "tab1" /\ exc' = exc
    /\ cache' = CacheAfter(cache, "fetch_eo_news", ans, expired)
    /\ UNCHANGED <<query, main_table, bills_df, selection, doc_no, clicked, rendered,
                   detail, log, prev, cycles, anVars, feVars, cliVars>>

\* Lines 118-143: search box, bill fetch, filter, table.
StepTab1(ans, expired) ==
    /\ pc = "tab1"
    /\ cache' = CacheAfter(cache, "fetch_data", ans, expired)
    /\ LET raw_bills == CachedCall(cache, "fetch_data", ans, expired)
           df0 == DataFrame(raw_bills.val)
           df == Filtered(df0, query)
       IN  IF ~TruthyOut(raw_bills)
             THEN /\ pc' = "tab2" /\ exc' = exc
                  /\ rendered' = rendered \cup {"search_bar"}
                  /\ UNCHANGED <<bills_df, selection, main_table>>
           ELSE IF raw_bills.val = <<>>
             \* df['latestAction'] on a frame without columns
             THEN /\ Crash("KeyError: 'latestAction'")
                  /\ rendered' = rendered \cup {"search_bar"}
                  /\ UNCHANGED <<bills_df, selection, main_table>>
           ELSE /\ pc' = "tab2" /\ exc' = exc
                /\ bills_df' = WriteBillsDf(df)
                /\ selection' = [assigned |-> TRUE, rows |-> Dataframe(df, main_table)]
                /\ main_table' = [data |-> df, rows |-> Dataframe(df, main_table)]
                /\ rendered' = rendered \cup {"search_bar", "main_table"}
    /\ UNCHANGED <<query, doc_no, clicked, detail, log, prev, cycles, anVars, feVars, cliVars>>

NoAbstract == Str(<<"No", "abstract", "available", "for", "this", "document", ".">>)

\* Lines 144-177: one expander per executive order, with its button.
StepTab2(ans, expired, back) ==
    /\ pc = "tab2"
    /\ cache' = CacheAfter(cache, "fetch_executive_orders", ans, expired)
    /\ LET orders == CachedCall(cache, "fetch_executive_orders", ans, expired).val
           hit == SelectSeq(orders, LAMBDA eo : eo.document_number = clicked)
           reqs == [i \in 1..Len(hit) |->
                      Request("orders", hit[i].document_number, "impact", hit[i].abstract,
                              DictGet(hit[i].abstract, NoAbstract), hit[i].title, back)]
       IN  /\ doc_no' = IF orders = <<>> THEN doc_no
                        ELSE [assigned |-> TRUE, v |-> orders[Len(orders)].document_number]
           /\ rendered' = rendered \cup {orders[i].document_number : i \in 1..Len(orders)}
           /\ Serve(reqs)
    /\ pc' = "tab3"
    /\ UNCHANGED <<exc, query, main_table, bills_df, selection, clicked, detail, prev,
                   cycles, anVars, feVars, cliVars>>

\* Lines 179-205: the bill detail panel.
StepTab3(back1, back2) ==
    /\ pc = "tab3"
    /\ IF ~selection.assigned
         THEN /\ Crash("NameError: name 'selection' is not defined")
              /\ UNCHANGED <<detail, log>>
       ELSE IF selection.rows = <<>>
         THEN /\ pc' = "scotus" /\ exc' = exc
              /\ detail' = [NoDetail EXCEPT !.kind = "info"]
              /\ UNCHANGED log
       ELSE LET idx == selection.rows[1] IN
            IF idx + 1 > Len(bills_df)
              THEN /\ Crash("IndexError: single positional indexer is out-of-bounds")
                   /\ UNCHANGED <<detail, log>>
            ELSE LET selected_bill == bills_df[idx + 1] IN
                 /\ pc' = "scotus" /\ exc' = exc
                 /\ detail' = [kind |-> "analysis", idx |-> idx, bill |-> selected_bill]
                 /\ Serve(<<Request("bills", selected_bill.number, "impact",
                                    selected_bill.title, selected_bill.title,
                                    selected_bill.title, back1),
                            Request("bills", selected_bill.number, "sentiment",
                                    selected_bill.title, selected_bill.title,
                                    selected_bill.title, back2)>>)
    /\ UNCHANGED <<cache, query, main_table, bills_df, selection, doc_no, clicked,
                   rendered, prev, cycles, anVars, feVars, cliVars>>

\* Lines 207-236: the Supreme Court panel.  The expander's label reads doc_no,
\* which only the loop of the orders panel assigns, and the link under the
\* facts reads current_year, a local of fetch_scotus_cases that the script
\* never assigns: with any case to show the run ends at the first one, before
\* its button (line 228) is ever put on the page.
StepScotus(ans, expired) ==
    /\ pc = "scotus"
    /\ cache' = CacheAfter(cache, "fetch_scotus_cases", ans, expired)
    /\ LET scotus_data == CachedCall(cache, "fetch_scotus_cases", ans, expired).val
       IN  IF scotus_data = <<>> THEN pc' = "idle" /\ exc' = exc
           ELSE IF ~doc_no.assigned THEN Crash("NameError: name 'doc_no' is not defined")
           ELSE Crash("NameError: name 'current_year' is not defined")
    /\ UNCHANGED <<query, main_table, bills_df, selection, doc_no, clicked, rendered,
                   detail, log, prev, cycles, anVars, feVars, cliVars>>

UINext ==
    \/ Rerun
    \/ \E q \in Queries : TypeQuery(q)
    \/ \E rows \in {<<>>} \cup {<<i>> : i \in 0..(Len(main_table.data) - 1)} : SelectRow(rows)
    \/ \E b \in rendered : ClickButton(b)
    \/ \E ans \in OrderAnswers, expired \in BOOLEAN : StepAlerts(ans, expired)
    \/ \E ans \in BillAnswers, expired \in BOOLEAN : StepTab1(ans, expired)
    \/ \E ans \in OrderAnswers, expired \in BOOLEAN, back \in Backend : StepTab2(ans, expired, back)
    \/ \E back1 \in Backend, back2 \in Backend : StepTab3(back1, back2)
    \/ \E ans \in CaseAnswers, expired \in BOOLEAN : StepScotus(ans, expired)

----------------------------------------------------------------------------
(* SpecCLI: scraper.py.  A line typed at the menu is a sequence of         *)
(* characters.                                                             *)
Alphabet == {"q", "Q", "1", "2", "4", "SUPERSCRIPT TWO", "x"}
AsciiDigits == {"1", "2", "4"}
\* Characters str.isdigit() accepts: decimal digits and other digit
\* characters such as superscripts, which int() does not parse.
DigitChars == AsciiDigits \cup {"SUPERSCRIPT TWO"}
Lines == UNION {[1..n -> Alphabet] : n \in 0..MaxChoiceLen}

lower(line) == [i \in 1..Len(line) |-> IF line[i] = "Q" THEN "q" ELSE line[i]]
isdigit(line) == Len(line) > 0 /\ \A i \in 1..Len(line) : line[i] \in DigitChars
IntParses(line) == Len(line) > 0 /\ \A i \in 1..Len(line) : line[i] \in AsciiDigits
DigitValue(c) == CASE c = "1" -> 1 [] c = "2" -> 2 [] c = "4" -> 4 [] OTHER -> 0
RECURSIVE int(_)
int(line) ==
    IF Len(line) = 0 THEN 0
    ELSE 10 * int(SubSeq(line, 1, Len(line) - 1)) + DigitValue(line[Len(line)])

CliBill(n, type) == [number |-> n, type |-> type]
K1 == CliBill("101", Str(<<"HR">>))
K2 == CliBill("7", Missing)
CliBillLists == {<<>>, <<K1, K2>>, <<K2>>}
CliAnswers == {Raise, Http(500, <<>>)} \cup {Http(200, l) : l \in CliBillLists}
\* The summaries and actions requests of get_bill_details.
DetailAnswers == {Raise, Http(500, <<>>), Http(200, <<>>)}

\* get_recent_bills(): the 'bills' list on status 200, [] otherwise.
get_recent_bills(ans) ==
    IF ans.kind = "raise" THEN <<>>
    ELSE IF ans.status = 200 THEN ans.body
    ELSE <<>>

\* get_bill_details(bill_type, bill_number): two requests.get calls outside
\* any try; a transport error of either leaves the function.
get_bill_details(sum_resp, act_resp) ==
    IF sum_resp.kind = "raise" \/ act_resp.kind = "raise"
      THEN "requests.ConnectionError" ELSE "none"

\* selected.get('type', 'hr').lower()
b_type(selected) ==
    LET ty == DictGet(selected.type, Str(<<"hr">>))
    IN  IF ty.w = <<"HR">> THEN Str(<<"hr">>) ELSE ty

NoCall == [called |-> FALSE, type |-> None, number |-> ""]

CLIInit ==
    /\ cli_pc = "start"
    /\ bills = <<>>
    /\ fetched0 = <<>>
    /\ choice = <<>>
    /\ printed = "none"
    /\ details = NoCall
    /\ cli_exc = "none"
    /\ turns = 0

\* Lines 48-53: the greeting and the one fetch.
CliStart(ans) ==
    /\ cli_pc = "start"
    /\ bills' = get_recent_bills(ans)
    /\ fetched0' = get_recent_bills(ans)
    /\ IF get_recent_bills(ans) = <<>>
         THEN cli_pc' = "nobills" /\ printed' = "No bills found."
         ELSE cli_pc' = "menu" /\ printed' = "none"
    /\ UNCHANGED <<choice, details, cli_exc, turns, uiVars, anVars, feVars>>

\* Lines 55-80: one pass of the loop, from the listing to the pause or the
\* invalid-selection message.
Choose(line, sum_resp, act_resp) ==
    /\ cli_pc = "menu"
    /\ turns < MaxTurns
    /\ turns' = turns + 1
    /\ choice' = line
    /\ IF lower(line) = <<"q">>
         THEN cli_pc' = "quit" /\ printed' = "none" /\ details' = NoCall /\ cli_exc' = cli_exc
       ELSE IF ~isdigit(line)
         THEN /\ cli_pc' = "menu" /\ printed' = "Invalid selection."
              /\ details' = NoCall /\ cli_exc' = cli_exc
       ELSE IF ~IntParses(line)
         THEN /\ cli_pc' = "raised" /\ cli_exc' = "ValueError"
              /\ printed' = "none" /\ details' = NoCall
       ELSE IF ~(1 <= int(line) /\ int(line) <= Len(bills))
         THEN /\ cli_pc' = "menu" /\ printed' = "Invalid selection."
              /\ details' = NoCall /\ cli_exc' = cli_exc
       ELSE LET selected == bills[int(line)] IN
            /\ details' = [called |-> TRUE, type |-> b_type(selected),
                           number |-> selected.number]
            /\ printed' = "details"
            /\ IF get_bill_details(sum_resp, act_resp) = "none"
                 THEN cli_pc' = "pause" /\ cli_exc' = cli_exc
                 ELSE cli_pc' = "raised" /\ cli_exc' = get_bill_details(sum_resp, act_resp)
    /\ UNCHANGED <<bills, fetched0, uiVars, anVars, feVars>>

\* Line 78: input("Press Enter to return to the list...")
PressEnter ==
    /\ cli_pc = "pause"
    /\ cli_pc' = "menu"
    /\ UNCHANGED <<bills, fetched0, choice, printed, details, cli_exc, turns, uiVars, anVars, feVars>>

CLINext ==
    \/ \E ans \in CliAnswers : CliStart(ans)
    \/ \E line \in Lines, sum_resp \in DetailAnswers, act_resp \in DetailAnswers :
          Choose(line, sum_resp, act_resp)
    \/ PressEnter

----------------------------------------------------------------------------
Init == UIInit /\ AnInit /\ FeInit /\ CLIInit
Next == UINext
Spec == Init /\ [][Next]_vars
SpecAnalyze == Init /\ [][AnNext]_vars
SpecFetch == Init /\ [][FeNext]_vars
SpecCLI == Init /\ [][CLINext]_vars

----------------------------------------------------------------------------
(* Properties.                                                             *)

\* A body text that is empty (None, absent or "") or carries the
\* "not yet available" placeholder.
EmptyOrPlaceholder(text) ==
    text.t # "str" \/ text.w = <<>> \/ Contains(text.w, NotYetAvailable)

SameKey(a, b) == a.id = b.id /\ a.mode = b.mode

\* C1: of two requests under one key (item, mode) made in consecutive runs,
\* both with a body text that is neither empty nor the placeholder and the
\* first answered by the backend, the second does not invoke the backend
\* and returns the value the first returned.
C1_SecondRequestReusesFirst ==
    \A i \in 1..Len(prev), j \in 1..Len(log) :
        (/\ SameKey(prev[i], log[j])
         /\ ~EmptyOrPlaceholder(prev[i].text) /\ ~EmptyOrPlaceholder(log[j].text)
         /\ prev[i].call.invoked /\ prev[i].call.back.ok)
        => (~log[j].call.invoked /\ log[j].call.ret = prev[i].call.ret)

\* C2: every analysis request of a panel for an item whose body text is
\* empty or the placeholder yields the pending message and does not invoke
\* the backend.
C2_PlaceholderNeverInvokes ==
    \A j \in 1..Len(log) :
        EmptyOrPlaceholder(log[j].body)
        => (log[j].call.ret = PendingMessage /\ ~log[j].call.invoked)

\* C3: a call whose backend invocation raised returns the error string and
\* does not raise; a call made after a failure under the same key whose
\* backend invocation succeeds returns the backend's text.
C3_FailureNotMemoized ==
    \A t \in Threads :
        (tpc[t] \in {"returned", "raised"} /\ tback[t] # NoAnswer)
        => /\ ~tback[t].ok => (tpc[t] = "returned" /\ tres[t] = ErrorString(tback[t].err))
           /\ (tback[t].ok /\ targs[t].afterFail) => tres[t] = tback[t].text

C3_Witness ==
    \E t \in Threads :
        /\ tpc[t] = "returned" /\ tback[t].ok /\ targs[t].afterFail
        /\ tres[t] = tback[t].text

\* C4: a wrapper whose request met a transport error or a status other than
\* 200 returns the empty list and raises nothing.
C4_FetchFailureGivesEmptyList ==
    \A w \in Wrappers :
        (fetched[w].ran /\ (fetched[w].ans.kind = "raise" \/ fetched[w].ans.status # 200))
        => (~fetched[w].out.raised /\ fetched[w].out.kind = "list"
            /\ fetched[w].out.val = <<>>)

\* C5: no two backend requests for one key (item, mode) are outstanding at
\* the same time.
C5_OneInFlightPerKey ==
    \A t1, t2 \in Threads :
        (t1 # t2 /\ tpc[t1] = "generate" /\ tpc[t2] = "generate")
        => ~SameKey(targs[t1], targs[t2])

\* C6: with a text that is neither empty nor the placeholder the call does
\* not fail, a mode without a template sends the prompt the impact mode
\* sends for the same title and text, a mode with a template sends that
\* template, and the three templates differ from one another.
Recognized == {"impact", "sentiment", "semantic"}
C6_UnknownModeUsesImpact ==
    \A t \in Threads :
        (tpc[t] # "idle" /\ ~EmptyOrPlaceholder(targs[t].text))
        => LET d == prompts(targs[t].title, targs[t].text)
               m == targs[t].mode
           IN  /\ tpc[t] # "raised"
               /\ m \notin Recognized => tprompt[t] = d["impact"]
               /\ m \in Recognized => tprompt[t] = d[m]
               /\ \A a, b \in Recognized : a # b => d[a] # d[b]

C6_Witness ==
    \E t \in Threads :
        /\ tpc[t] = "generate" /\ targs[t].mode = "summary"
        /\ tprompt[t] = prompts(targs[t].title, targs[t].text)["impact"]
        /\ \E u \in Threads : tpc[u] = "generate" /\ targs[u].mode = "semantic"

\* C7: for a mode other than constitution, the result of a call whose
\* backend invocation succeeded has score 5 and the backend's text as body.
C7_SentinelScoreAndRawBody ==
    \A t \in Threads :
        (tpc[t] = "returned" /\ tback[t].ok /\ targs[t].mode # "constitution")
        => LET r == AnalysisResult(tres[t])
           IN  /\ "score" \in DOMAIN r
               /\ r.score = 5
               /\ r.body = tback[t].text

\* C8: no run ends on an out-of-bounds row; when the detail panel analyses
\* a bill, the row it read is the one the list panel returned in this run,
\* lies within the table shown in this run and is that table's row, and the
\* panel's requests are for that bill; with no row selected the panel shows
\* the hint and makes no request.
BillRequests == SelectSeq(log, LAMBDA r : r.panel = "bills")
C8_DetailUsesThisRunsSelection ==
    /\ exc # "IndexError: single positional indexer is out-of-bounds"
    /\ detail.kind = "analysis" =>
          /\ "main_table" \in rendered
          /\ selection.assigned /\ selection.rows = <<detail.idx>>
          /\ main_table.rows = selection.rows
          /\ detail.idx \in 0..(Len(main_table.data) - 1)
          /\ detail.bill = main_table.data[detail.idx + 1]
          /\ Len(BillRequests) = 2
          /\ \A i \in 1..Len(BillRequests) :
                /\ BillRequests[i].id = detail.bill.number
                /\ BillRequests[i].text = main_table.data[detail.idx + 1].title
    /\ detail.kind = "info" =>
          /\ selection.assigned /\ selection.rows = <<>>
          /\ BillRequests = <<>>

C8_Witness ==
    /\ detail.kind = "analysis" /\ detail.idx = 0
    /\ Truthy(query) /\ detail.bill.number = B2.number
    /\ cycles = 3

\* C9: no run ends because the detail panel read `selection` before the
\* list panel assigned it.
C9_SelectionAssignedBeforeRead ==
    exc # "NameError: name 'selection' is not defined"

\* C10: get_bill_details is called only for a line of decimal digits n with
\* 1 <= n <= len(bills), with the type and number of bills[n-1]; any other
\* line but q/Q prints the invalid-selection message and the loop goes on;
\* bills stays the list fetched at the start; the loop is left only on q/Q,
\* or before it starts when the list is empty.
ValidNumber(line) == IntParses(line) /\ 1 <= int(line) /\ int(line) <= Len(bills)
C10_MenuLoop ==
    /\ details.called =>
          /\ ValidNumber(choice)
          /\ details.type = b_type(bills[int(choice)])
          /\ details.number = bills[int(choice)].number
    /\ (turns > 0 /\ lower(choice) # <<"q">> /\ ~ValidNumber(choice)) =>
          (cli_pc = "menu" /\ printed = "Invalid selection.")
    /\ cli_pc # "start" => bills = fetched0
    /\ cli_pc \notin {"start", "menu", "pause"} =>
          \/ cli_pc = "quit" /\ lower(choice) = <<"q">>
          \/ cli_pc = "nobills" /\ bills = <<>> /\ turns = 0

====
